---- MODULE Spec2Model ----
(***************************************************************************)
(* Model of the Statsig boundary adapter (src/src/statsig_swift.cpp): the  *)
(* nine functions of namespace statsig::swift, the two helpers of the      *)
(* anonymous namespace, and the evaluation core they call, which is an     *)
(* opaque collaborator owning the process-wide isInitialized flag.         *)
(*                                                                         *)
(* Every handler is split at its core calls: the first step is the call of *)
(* statsig::isInitialized() together with the thread-local work that       *)
(* follows it (context building), the second step is the one further core  *)
(* call the handler makes, together with the translation of its outcome    *)
(* into the result envelope.  Spec runs one caller thread (sequential      *)
(* calls), SpecConc runs NumThreads threads interleaved at core calls.     *)
(***************************************************************************)
EXTENDS Integers, Sequences, FiniteSets, TLC

VARIABLES coreInit, pc, call, prevInitOk, everInitCalled

vars == <<coreInit, pc, call, prevInitOk, everInitCalled>>

\* Number of caller threads of the concurrent specification.
NumThreads == 2

Threads == 1..NumThreads

\* The single caller of the sequential specification.
MainThread == CHOOSE t \in Threads : \A u \in Threads : t <= u

(***************************************************************************)
(* JSON values (nlohmann::json).  A value is a record [t, v]: t is the     *)
(* type tag, v the payload.  Scalars carry their literal text, an array a  *)
(* sequence of values, an object a function from its keys to values        *)
(* (nlohmann::json keeps objects in a std::map, so an object is its        *)
(* key-value mapping and nothing else: no insertion order).                *)
(***************************************************************************)
EmptyMap == [k \in {} |-> TRUE]

JNull == [t |-> "null", v |-> "null"]

JStr(s) == [t |-> "string", v |-> s]

JNum(s) == [t |-> "number", v |-> s]

JBool(s) == [t |-> "boolean", v |-> s]

JArr(s) == [t |-> "array", v |-> s]

JObj(f) == [t |-> "object", v |-> f]

\* input.is_object()
is_object(j) == j.t = "object"

\* The seven identity fields and the four mapping fields of statsig::User.
StringKeys == {"userID", "email", "ipAddress", "userAgent", "country", "locale", "appVersion"}

MapKeys == {"custom", "privateAttribute", "statsigEnvironment", "customIDs"}

UserKeys == StringKeys \cup MapKeys

\* default_user_json(): every identity field "", every mapping {}.
default_user_json == JObj([k \in UserKeys |-> IF k \in StringKeys THEN JStr("") ELSE JObj(EmptyMap)])

(***************************************************************************)
(* nlohmann::json::merge_patch (RFC 7386): a non-object patch replaces the *)
(* target; an object patch turns a non-object target into {} and then,     *)
(* per key, erases the key when the patch value is null and otherwise      *)
(* merge-patches the patch value into target[key] (null when absent).      *)
(***************************************************************************)
\* A wholesale overwrite per top-level key (update) in place of merge_patch.
merge_patch_shallow(target, patch) ==
  IF ~is_object(patch) THEN patch
  ELSE LET base == IF is_object(target) THEN target.v ELSE EmptyMap
       IN JObj([k \in DOMAIN base \cup DOMAIN patch.v |->
                  IF k \in DOMAIN patch.v THEN patch.v[k] ELSE base[k]])

RECURSIVE merge_patch(_, _)
merge_patch(target, patch) ==
  IF ~is_object(patch) THEN patch
  ELSE LET base == IF is_object(target) THEN target.v ELSE EmptyMap
           erased == {k \in DOMAIN patch.v : patch.v[k].t = "null"}
           written == DOMAIN patch.v \ erased
           keys == (DOMAIN base \ erased) \cup written
       IN JObj([k \in keys |->
                  IF k \in written
                  THEN merge_patch(IF k \in DOMAIN base THEN base[k] ELSE JNull, patch.v[k])
                  ELSE base[k]])

(***************************************************************************)
(* The userJson texts the callers pass, and nlohmann::json::parse on each: *)
(* the empty text, objects (empty, flat, nested, with null members, with a *)
(* wrongly typed member), the five non-object kinds, and malformed text.   *)
(***************************************************************************)
ObjectTexts == {"{}",
                "{\"userID\":\"u1\"}",
                "{\"userID\":\"u1\",\"custom\":{\"plan\":\"pro\"}}",
                "{\"custom\":{\"plan\":\"pro\",\"tmp\":null}}",
                "{\"custom\":{\"a\":{\"b\":null,\"c\":\"1\"}}}",
                "{\"email\":null}",
                "{\"custom\":\"oops\"}"}

NonObjectTexts == {"[1]", "42", "\"s\"", "true", "null"}

MalformedTexts == {"{bad"}

UserJsonTexts == {""} \cup ObjectTexts \cup NonObjectTexts \cup MalformedTexts

ParseErrorWhat == "[json.exception.parse_error.101] parse error: syntax error while parsing value"

Parsed(j) == [ok |-> TRUE, value |-> j, what |-> ""]

\* nlohmann::json::parse(user_json): the value the text denotes, or a
\* parse_error (a std::exception whose what() is never empty).
json_parse(text) ==
  CASE text = "{}" -> Parsed(JObj(EmptyMap))
    [] text = "{\"userID\":\"u1\"}" -> Parsed(JObj([userID |-> JStr("u1")]))
    [] text = "{\"userID\":\"u1\",\"custom\":{\"plan\":\"pro\"}}" ->
         Parsed(JObj([userID |-> JStr("u1"), custom |-> JObj([plan |-> JStr("pro")])]))
    [] text = "{\"custom\":{\"plan\":\"pro\",\"tmp\":null}}" ->
         Parsed(JObj([custom |-> JObj([plan |-> JStr("pro"), tmp |-> JNull])]))
    [] text = "{\"custom\":{\"a\":{\"b\":null,\"c\":\"1\"}}}" ->
         Parsed(JObj([custom |-> JObj([a |-> JObj([b |-> JNull, c |-> JStr("1")])])]))
    [] text = "{\"email\":null}" -> Parsed(JObj([email |-> JNull]))
    [] text = "{\"custom\":\"oops\"}" -> Parsed(JObj([custom |-> JStr("oops")]))
    [] text = "[1]" -> Parsed(JArr(<<JNum("1")>>))
    [] text = "42" -> Parsed(JNum("42"))
    [] text = "\"s\"" -> Parsed(JStr("s"))
    [] text = "true" -> Parsed(JBool("true"))
    [] text = "null" -> Parsed(JNull)
    [] OTHER -> [ok |-> FALSE, value |-> JNull, what |-> ParseErrorWhat]

\* statsig::User user;  (default-constructed: empty strings, empty maps)
DefaultUser == [k \in UserKeys |-> IF k \in StringKeys THEN JStr("") ELSE JObj(EmptyMap)]

TypeErrorWhat == "[json.exception.type_error.302] type mismatch"

OutOfRangeWhat == "[json.exception.out_of_range.403] key not found"

\* Whether member k of the merged object has the type of field k.
FieldTypeOk(k, j) == IF k \in StringKeys THEN j.t = "string" ELSE j.t = "object"

(***************************************************************************)
(* merged.get<statsig::User>(): the conversion belongs to the core.  A     *)
(* member of the wrong type faults (type_error).  What a missing member    *)
(* does is the core's choice: missingFaults says whether the conversion    *)
(* faults (out_of_range) or leaves the field default-constructed.          *)
(***************************************************************************)
user_from_json(merged, missingFaults) ==
  LET present == DOMAIN merged.v \cap UserKeys
      missing == UserKeys \ DOMAIN merged.v
  IN IF \E k \in present : ~FieldTypeOk(k, merged.v[k])
     THEN [ok |-> FALSE, user |-> DefaultUser, error |-> TypeErrorWhat]
     ELSE IF missing # {} /\ missingFaults
     THEN [ok |-> FALSE, user |-> DefaultUser, error |-> OutOfRangeWhat]
     ELSE [ok |-> TRUE,
           user |-> [k \in UserKeys |-> IF k \in present THEN merged.v[k] ELSE DefaultUser[k]],
           error |-> ""]

NotAnObjectError == "userJson must be a JSON object"

\* parse_user_json without the is_object check: the conversion of the
\* non-object value faults with a type_error instead.
parse_user_json_unchecked(user_json, missingFaults) ==
  IF user_json = ""
  THEN user_from_json(default_user_json, missingFaults)
  ELSE LET input == json_parse(user_json)
       IN IF ~input.ok
          THEN [ok |-> FALSE, user |-> DefaultUser, error |-> input.what]
          ELSE IF ~is_object(input.value)
          THEN [ok |-> FALSE, user |-> DefaultUser, error |-> TypeErrorWhat]
          ELSE user_from_json(merge_patch(default_user_json, input.value), missingFaults)

(***************************************************************************)
(* parse_user_json(user_json, user, error): [ok, user, error].  An empty   *)
(* text skips parsing and merging; every fault inside is a std::exception  *)
(* of the JSON library and is reported with its what().                    *)
(***************************************************************************)
parse_user_json(user_json, missingFaults) ==
  IF user_json = ""
  THEN user_from_json(default_user_json, missingFaults)
  ELSE LET input == json_parse(user_json)
       IN IF ~input.ok
          THEN [ok |-> FALSE, user |-> DefaultUser, error |-> input.what]
          ELSE IF ~is_object(input.value)
          THEN [ok |-> FALSE, user |-> DefaultUser, error |-> NotAnObjectError]
          ELSE user_from_json(merge_patch(default_user_json, input.value), missingFaults)

(***************************************************************************)
(* json.dump(): compact text.  Objects are std::map's, so members are      *)
(* written in the byte order of their keys; KeyBytes gives the bytes of    *)
(* the keys that occur in dumped objects.                                  *)
(***************************************************************************)
KeyBytes(k) ==
  CASE k = "name" -> <<110, 97, 109, 101>>
    [] k = "value" -> <<118, 97, 108, 117, 101>>
    [] k = "ruleID" -> <<114, 117, 108, 101, 73, 68>>
    [] k = "groupName" -> <<103, 114, 111, 117, 112, 78, 97, 109, 101>>
    [] k = "x" -> <<120>>
    [] k = "y" -> <<121>>
    [] OTHER -> <<>>

\* std::less<std::string>: lexicographic comparison of the bytes.
KeyLess(a, b) ==
  LET x == KeyBytes(a)
      y == KeyBytes(b)
  IN \/ \E i \in 1..Len(x) : /\ i <= Len(y)
                             /\ x[i] < y[i]
                             /\ \A j \in 1..(i - 1) : x[j] = y[j]
     \/ /\ Len(x) < Len(y)
        /\ \A j \in 1..Len(x) : x[j] = y[j]

\* The keys of a std::map in iteration order.
RECURSIVE SortedKeys(_)
SortedKeys(S) ==
  IF S = {} THEN <<>>
  ELSE LET first == CHOOSE k \in S : \A o \in S \ {k} : KeyLess(k, o)
       IN <<first>> \o SortedKeys(S \ {first})

RECURSIVE JoinComma(_)
JoinComma(parts) ==
  IF Len(parts) = 0 THEN ""
  ELSE IF Len(parts) = 1 THEN parts[1]
  ELSE parts[1] \o "," \o JoinComma(Tail(parts))

Quote(s) == "\"" \o s \o "\""

RECURSIVE dump(_)
dump(j) ==
  CASE j.t = "string" -> Quote(j.v)
    [] j.t = "array" -> "[" \o JoinComma([i \in 1..Len(j.v) |-> dump(j.v[i])]) \o "]"
    [] j.t = "object" ->
         LET keys == SortedKeys(DOMAIN j.v)
         IN "{" \o JoinComma([i \in 1..Len(keys) |-> Quote(keys[i]) \o ":" \o dump(j.v[keys[i]])]) \o "}"
    [] OTHER -> j.v

(***************************************************************************)
(* What the core hands back.  A layer has a name, a parameter mapping, a   *)
(* rule ID and further fields (groupName); a dynamic config has a name, a  *)
(* value mapping and a rule ID.                                            *)
(***************************************************************************)
Layers == {[name |-> "my_layer", value |-> [x |-> JNum("1")], ruleID |-> "default", groupName |-> "g1"],
           [name |-> "l2", value |-> [y |-> JStr("b"), x |-> JNum("1")], ruleID |-> "rule_7", groupName |-> "g2"],
           [name |-> "empty_layer", value |-> EmptyMap, ruleID |-> "", groupName |-> ""]}

Configs == {[name |-> "cfg", value |-> [x |-> JNum("1")], ruleID |-> "default"],
            [name |-> "cfg", value |-> EmptyMap, ruleID |-> ""]}

\* nlohmann::json json = config;  (the core's conversion of DynamicConfig)
config_to_json(config) ==
  JObj([name |-> JStr(config.name), value |-> JObj(config.value), ruleID |-> JStr(config.ruleID)])

\* The whole layer object converted, groupName included.
layer_to_json_all_fields(layer) ==
  JObj([name |-> JStr(layer.name), value |-> JObj(layer.value), ruleID |-> JStr(layer.ruleID),
        groupName |-> JStr(layer.groupName)])

\* json["name"] = layer.name; json["value"] = layer.value; json["ruleID"] = layer.ruleID;
layer_to_json(layer) ==
  JObj([name |-> JStr(layer.name), value |-> JObj(layer.value), ruleID |-> JStr(layer.ruleID)])

(***************************************************************************)
(* Faults of a core call: none, a std::exception with a message, a         *)
(* std::exception whose what() is empty, and anything else that is thrown. *)
(***************************************************************************)
NoFault == [kind |-> "none", what |-> ""]

Faults == {NoFault,
           [kind |-> "std", what |-> "core failure"],
           [kind |-> "std", what |-> ""],
           [kind |-> "other", what |-> ""]}

Faulted(f) == f.kind # "none"

\* catch (const std::exception &ex) { ... ex.what() }  catch (...) { ... fallback }
caught_error(f, fallback) == IF f.kind = "std" THEN f.what ELSE fallback

(***************************************************************************)
(* The result envelopes of statsig_swift.h in one shape: Result has no     *)
(* payload, BoolResult carries bvalue, StringResult carries svalue.        *)
(***************************************************************************)
Result(ok, error) == [ok |-> ok, bvalue |-> FALSE, svalue |-> "", error |-> error]

BoolResult(ok, value, error) == [ok |-> ok, bvalue |-> value, svalue |-> "", error |-> error]

StringResult(ok, value, error) == [ok |-> ok, bvalue |-> FALSE, svalue |-> value, error |-> error]

NotInitializedError == "Statsig not initialized"

AlreadyInitializedError == "Statsig already initialized"

not_initialized_result == Result(FALSE, NotInitializedError)

(***************************************************************************)
(* Arguments of the calls.                                                 *)
(***************************************************************************)
SdkKeys == {"secret-key"}

Names == {"my_layer"}

Apis == {"", "https://example.test/v1"}

SyncIntervals == {0, 10}

LoggingIntervals == {1}

BufferSizes == {100}

CoreDefaultApi == "core-default-api"

\* statsig::Options options;  (default-constructed)
DefaultOptions ==
  [api |-> CoreDefaultApi, localMode |-> FALSE, rulesetsSyncIntervalMs |-> 0,
   loggingIntervalMs |-> 0, loggingMaxBufferSize |-> 0]

NoArgs ==
  [sdkKey |-> "", api |-> "", localMode |-> FALSE, rulesetsSyncIntervalMs |-> 0,
   loggingIntervalMs |-> 0, loggingMaxBufferSize |-> 0]

\* initializeWithOptions: api is applied only when non-empty, the rest always.
build_options(args) ==
  [api |-> IF args.api # "" THEN args.api ELSE DefaultOptions.api,
   localMode |-> args.localMode,
   rulesetsSyncIntervalMs |-> args.rulesetsSyncIntervalMs,
   loggingIntervalMs |-> args.loggingIntervalMs,
   loggingMaxBufferSize |-> args.loggingMaxBufferSize]

InitOps == {"initialize", "initializeWithOptions"}

EvalOps == {"checkGateJson", "getConfigJson", "getExperimentJson", "getLayerJson", "logEventJson"}

CoreEvalFns == {"checkGate", "getConfig", "getExperiment", "getLayer", "logEvent"}

(***************************************************************************)
(* State.  coreInit is the core's isInitialized flag, the only shared      *)
(* state.  pc[t] is "idle" before the first call of thread t, "core" when  *)
(* its handler has passed the guard and is about to make its second core   *)
(* call, "done" when its call has ended.  call[t] is the call in progress  *)
(* or just ended: its arguments, what it did and its result.  prevInitOk   *)
(* says the call that ended last was an initialize that returned ok, and   *)
(* everInitCalled that some initialize has been called.                    *)
(***************************************************************************)
NoLayer == [name |-> "", value |-> EmptyMap, ruleID |-> "", groupName |-> ""]

CallRecord(op, userJson, name, args, flag, prevOk, noInit) ==
  [op |-> op, userJson |-> userJson, name |-> name, args |-> args,
   initAtGuard |-> flag,              \* the flag when isInitialized() was called
   afterInitOk |-> prevOk,            \* the previous call was an initialize that returned ok
   beforeAnyInit |-> noInit,          \* no initialize was called before this call
   parsed |-> FALSE,                  \* parse_user_json was called
   user |-> DefaultUser,              \* the context it built
   invoked |-> "none",                \* the core operation called after the guard
   initAtInvoke |-> FALSE,            \* the flag when that operation was called
   options |-> DefaultOptions,        \* the options handed to the core's initialize
   layer |-> NoLayer,                 \* the layer the core's getLayer returned
   faulted |-> FALSE,                 \* a core call of this call faulted
   fault |-> NoFault,                 \* the fault of that core call
   outcome |-> "pending",             \* "returned", or "escaped" when a fault left the handler
   ok |-> FALSE, bvalue |-> FALSE, svalue |-> "", error |-> ""]

NoCall == CallRecord("none", "", "", NoArgs, FALSE, FALSE, TRUE)

\* The record of a call that starts in the current state.
NewCall(op, userJson, name, args) ==
  CallRecord(op, userJson, name, args, coreInit, prevInitOk, ~everInitCalled)

CanCall(t) == pc[t] \in {"idle", "done"}

\* The handler returns the envelope env.
Return(t, c, env) ==
  /\ call' = [call EXCEPT ![t] = [c EXCEPT !.outcome = "returned", !.ok = env.ok,
                                           !.bvalue = env.bvalue, !.svalue = env.svalue,
                                           !.error = env.error]]
  /\ pc' = [pc EXCEPT ![t] = "done"]
  /\ prevInitOk' = (c.op \in InitOps /\ env.ok)
  /\ everInitCalled' = (everInitCalled \/ c.op \in InitOps)

\* A fault of a core call made outside every try block leaves the handler.
Escape(t, c, f) ==
  /\ call' = [call EXCEPT ![t] = [c EXCEPT !.outcome = "escaped", !.faulted = TRUE, !.fault = f]]
  /\ pc' = [pc EXCEPT ![t] = "done"]
  /\ prevInitOk' = FALSE
  /\ everInitCalled' = (everInitCalled \/ c.op \in InitOps)

\* The handler has passed its guard and goes on to its second core call.
Proceed(t, c) ==
  /\ call' = [call EXCEPT ![t] = c]
  /\ pc' = [pc EXCEPT ![t] = "core"]
  /\ everInitCalled' = (everInitCalled \/ c.op \in InitOps)
  /\ UNCHANGED prevInitOk

AtCore(t, op) == pc[t] = "core" /\ call[t].op = op

\* The call record when the handler calls core operation fn.
Invoking(t, fn, f) ==
  [call[t] EXCEPT !.invoked = fn, !.initAtInvoke = coreInit, !.faulted = Faulted(f), !.fault = f]

(***************************************************************************)
(* The core's lifecycle: initialize sets the flag, shutdown clears it; a   *)
(* call that faults leaves the flag either way.  Evaluation calls do not   *)
(* touch the flag.                                                         *)
(***************************************************************************)
core_initialize(flag, f, flagAfterFault) == IF Faulted(f) THEN flagAfterFault ELSE TRUE

core_shutdown(flag, f, flagAfterFault) == IF Faulted(f) THEN flagAfterFault ELSE FALSE

core_evaluate(flag) == flag

Init ==
  /\ coreInit = FALSE
  /\ pc = [t \in Threads |-> "idle"]
  /\ call = [t \in Threads |-> NoCall]
  /\ prevInitOk = FALSE
  /\ everInitCalled = FALSE

(***************************************************************************)
(* Lifecycle operations.                                                   *)
(***************************************************************************)
\* bool isInitialized(): the core's flag, passed through (kept in bvalue; a
\* bool is no envelope, so ok and error of this call mean nothing).
isInitialized(t, inputs) ==
  /\ CanCall(t)
  /\ \E f \in inputs.faults :
       LET c == NewCall("isInitialized", "", "", NoArgs)
       IN IF Faulted(f) THEN Escape(t, c, f)
          ELSE Return(t, c, BoolResult(TRUE, coreInit, ""))
  /\ UNCHANGED coreInit

\* initialize without the already-initialized guard.
initialize_unguarded(t, inputs) ==
  /\ CanCall(t)
  /\ \E sdkKey \in SdkKeys, f \in inputs.faults :
       LET c == NewCall("initialize", "", "", [NoArgs EXCEPT !.sdkKey = sdkKey])
       IN IF Faulted(f) THEN Escape(t, c, f) ELSE Proceed(t, c)
  /\ UNCHANGED coreInit

\* initialize, lines 74-77: the already-initialized guard.
initialize(t, inputs) ==
  /\ CanCall(t)
  /\ \E sdkKey \in SdkKeys, f \in inputs.faults :
       LET c == NewCall("initialize", "", "", [NoArgs EXCEPT !.sdkKey = sdkKey])
       IN IF Faulted(f) THEN Escape(t, c, f)
          ELSE IF coreInit THEN Return(t, c, Result(FALSE, AlreadyInitializedError))
          ELSE Proceed(t, c)
  /\ UNCHANGED coreInit

\* initialize, lines 78-79: statsig::initialize(sdkKey), outside any try block.
initialize_core(t, inputs) ==
  /\ AtCore(t, "initialize")
  /\ \E f \in inputs.faults, flagAfterFault \in BOOLEAN :
       LET c == Invoking(t, "initialize", f)
       IN /\ coreInit' = core_initialize(coreInit, f, flagAfterFault)
          /\ IF Faulted(f) THEN Escape(t, c, f) ELSE Return(t, c, Result(TRUE, ""))

\* initializeWithOptions, lines 90-93.
initializeWithOptions(t, inputs) ==
  /\ CanCall(t)
  /\ \E sdkKey \in SdkKeys, api \in inputs.apis, localMode \in inputs.localModes, sync \in inputs.syncs,
        logging \in LoggingIntervals, buffer \in BufferSizes, f \in inputs.faults :
       LET args == [sdkKey |-> sdkKey, api |-> api, localMode |-> localMode,
                    rulesetsSyncIntervalMs |-> sync, loggingIntervalMs |-> logging,
                    loggingMaxBufferSize |-> buffer]
           c == NewCall("initializeWithOptions", "", "", args)
       IN IF Faulted(f) THEN Escape(t, c, f)
          ELSE IF coreInit THEN Return(t, c, Result(FALSE, AlreadyInitializedError))
          ELSE Proceed(t, c)
  /\ UNCHANGED coreInit

\* initializeWithOptions, lines 94-104: build the options, statsig::initialize.
initializeWithOptions_core(t, inputs) ==
  /\ AtCore(t, "initializeWithOptions")
  /\ \E f \in inputs.faults, flagAfterFault \in BOOLEAN :
       LET c == [Invoking(t, "initialize", f) EXCEPT !.options = build_options(call[t].args)]
       IN /\ coreInit' = core_initialize(coreInit, f, flagAfterFault)
          /\ IF Faulted(f) THEN Escape(t, c, f) ELSE Return(t, c, Result(TRUE, ""))

\* shutdown that calls statsig::shutdown() before it looks at the flag it read.
shutdown_always(t, inputs) ==
  /\ CanCall(t)
  /\ \E f \in inputs.faults :
       LET c == NewCall("shutdown", "", "", NoArgs)
       IN IF Faulted(f) THEN Escape(t, c, f) /\ UNCHANGED coreInit
          ELSE IF ~coreInit
          THEN /\ Return(t, [c EXCEPT !.invoked = "shutdown", !.initAtInvoke = coreInit],
                         not_initialized_result)
               /\ coreInit' = core_shutdown(coreInit, NoFault, FALSE)
          ELSE Proceed(t, c) /\ UNCHANGED coreInit

\* shutdown, lines 109-112: the not-initialized guard.
shutdown(t, inputs) ==
  /\ CanCall(t)
  /\ \E f \in inputs.faults :
       LET c == NewCall("shutdown", "", "", NoArgs)
       IN IF Faulted(f) THEN Escape(t, c, f)
          ELSE IF ~coreInit THEN Return(t, c, not_initialized_result)
          ELSE Proceed(t, c)
  /\ UNCHANGED coreInit

\* shutdown, lines 113-114: statsig::shutdown(), outside any try block.
shutdown_core(t, inputs) ==
  /\ AtCore(t, "shutdown")
  /\ \E f \in inputs.faults, flagAfterFault \in BOOLEAN :
       LET c == Invoking(t, "shutdown", f)
       IN /\ coreInit' = core_shutdown(coreInit, f, flagAfterFault)
          /\ IF Faulted(f) THEN Escape(t, c, f) ELSE Return(t, c, Result(TRUE, ""))

(***************************************************************************)
(* Evaluation operations.  All five open alike: the not-initialized guard, *)
(* then parse_user_json; only what they return on failure differs in type. *)
(***************************************************************************)
\* The prologue with context building moved in front of the guard.
eval_prologue_parse_first(isInit, userJson, missingFaults) ==
  LET p == parse_user_json(userJson, missingFaults)
  IN IF ~p.ok
     THEN [proceed |-> FALSE, parsed |-> TRUE, user |-> p.user, error |-> p.error]
     ELSE IF ~isInit
     THEN [proceed |-> FALSE, parsed |-> TRUE, user |-> p.user, error |-> NotInitializedError]
     ELSE [proceed |-> TRUE, parsed |-> TRUE, user |-> p.user, error |-> ""]

\* Lines 119-128 (and 146-155, 174-183, 202-211, 233-242).
eval_prologue(isInit, userJson, missingFaults) ==
  IF ~isInit
  THEN [proceed |-> FALSE, parsed |-> FALSE, user |-> DefaultUser, error |-> NotInitializedError]
  ELSE LET p == parse_user_json(userJson, missingFaults)
       IN [proceed |-> p.ok, parsed |-> TRUE, user |-> p.user, error |-> p.error]

\* The failure envelope of each evaluation handler: BoolResult{false, false, error},
\* StringResult{false, "", error}, and for logEventJson not_initialized_result()
\* or Result{false, error}.
failed_result(op, error) ==
  CASE op = "checkGateJson" -> BoolResult(FALSE, FALSE, error)
    [] op = "logEventJson" ->
         IF error = NotInitializedError THEN not_initialized_result ELSE Result(FALSE, error)
    [] OTHER -> StringResult(FALSE, "", error)

\* What the first step of an evaluation handler does with its inputs.
EvalEnter(t, op, userJson, name, f, missingFaults) ==
  LET c == NewCall(op, userJson, name, NoArgs)
      pro == eval_prologue(coreInit, userJson, missingFaults)
      d == [c EXCEPT !.parsed = pro.parsed, !.user = pro.user]
  IN IF Faulted(f) THEN Escape(t, c, f)
     ELSE IF pro.proceed THEN Proceed(t, d)
     ELSE Return(t, d, failed_result(op, pro.error))

\* Lines 119-128.
checkGateJson(t, inputs) ==
  /\ CanCall(t)
  /\ \E userJson \in inputs.texts, gateName \in Names, f \in inputs.faults, missingFaults \in inputs.missing :
       EvalEnter(t, "checkGateJson", userJson, gateName, f, missingFaults)
  /\ UNCHANGED coreInit

\* Lines 129-141.
checkGateJson_core(t, inputs) ==
  /\ AtCore(t, "checkGateJson")
  /\ \E f \in inputs.faults, value \in inputs.gates :
       Return(t, Invoking(t, "checkGate", f),
              IF Faulted(f) THEN BoolResult(FALSE, FALSE, caught_error(f, "Failed to check gate"))
              ELSE BoolResult(TRUE, value, ""))
  /\ coreInit' = core_evaluate(coreInit)

\* Lines 146-155.
getConfigJson(t, inputs) ==
  /\ CanCall(t)
  /\ \E userJson \in inputs.texts, configName \in Names, f \in inputs.faults, missingFaults \in inputs.missing :
       EvalEnter(t, "getConfigJson", userJson, configName, f, missingFaults)
  /\ UNCHANGED coreInit

\* Lines 156-169.
getConfigJson_core(t, inputs) ==
  /\ AtCore(t, "getConfigJson")
  /\ \E f \in inputs.faults, config \in inputs.configs :
       Return(t, Invoking(t, "getConfig", f),
              IF Faulted(f) THEN StringResult(FALSE, "", caught_error(f, "Failed to get config"))
              ELSE StringResult(TRUE, dump(config_to_json(config)), ""))
  /\ coreInit' = core_evaluate(coreInit)

\* Lines 174-183.
getExperimentJson(t, inputs) ==
  /\ CanCall(t)
  /\ \E userJson \in inputs.texts, experimentName \in Names, f \in inputs.faults, missingFaults \in inputs.missing :
       EvalEnter(t, "getExperimentJson", userJson, experimentName, f, missingFaults)
  /\ UNCHANGED coreInit

\* Lines 184-197.
getExperimentJson_core(t, inputs) ==
  /\ AtCore(t, "getExperimentJson")
  /\ \E f \in inputs.faults, config \in inputs.configs :
       Return(t, Invoking(t, "getExperiment", f),
              IF Faulted(f) THEN StringResult(FALSE, "", caught_error(f, "Failed to get experiment"))
              ELSE StringResult(TRUE, dump(config_to_json(config)), ""))
  /\ coreInit' = core_evaluate(coreInit)

\* Lines 202-211.
getLayerJson(t, inputs) ==
  /\ CanCall(t)
  /\ \E userJson \in inputs.texts, layerName \in Names, f \in inputs.faults, missingFaults \in inputs.missing :
       EvalEnter(t, "getLayerJson", userJson, layerName, f, missingFaults)
  /\ UNCHANGED coreInit

\* Lines 212-228.
getLayerJson_core(t, inputs) ==
  /\ AtCore(t, "getLayerJson")
  /\ \E f \in inputs.faults, layer \in inputs.layers :
       Return(t, [Invoking(t, "getLayer", f) EXCEPT !.layer = IF Faulted(f) THEN @ ELSE layer],
              IF Faulted(f) THEN StringResult(FALSE, "", caught_error(f, "Failed to get layer"))
              ELSE StringResult(TRUE, dump(layer_to_json(layer)), ""))
  /\ coreInit' = core_evaluate(coreInit)

\* Lines 233-242.
logEventJson(t, inputs) ==
  /\ CanCall(t)
  /\ \E userJson \in inputs.texts, eventName \in Names, f \in inputs.faults, missingFaults \in inputs.missing :
       EvalEnter(t, "logEventJson", userJson, eventName, f, missingFaults)
  /\ UNCHANGED coreInit

\* Lines 243-255.
logEventJson_core(t, inputs) ==
  /\ AtCore(t, "logEventJson")
  /\ \E f \in inputs.faults :
       Return(t, Invoking(t, "logEvent", f),
              IF Faulted(f) THEN Result(FALSE, caught_error(f, "Failed to log event"))
              ELSE Result(TRUE, ""))
  /\ coreInit' = core_evaluate(coreInit)

\* One step of thread t, its arguments and the core's answers drawn from inputs.
Step(t, inputs) ==
  \/ isInitialized(t, inputs)
  \/ initialize(t, inputs)
  \/ initialize_core(t, inputs)
  \/ initializeWithOptions(t, inputs)
  \/ initializeWithOptions_core(t, inputs)
  \/ shutdown(t, inputs)
  \/ shutdown_core(t, inputs)
  \/ checkGateJson(t, inputs)
  \/ checkGateJson_core(t, inputs)
  \/ getConfigJson(t, inputs)
  \/ getConfigJson_core(t, inputs)
  \/ getExperimentJson(t, inputs)
  \/ getExperimentJson_core(t, inputs)
  \/ getLayerJson(t, inputs)
  \/ getLayerJson_core(t, inputs)
  \/ logEventJson(t, inputs)
  \/ logEventJson_core(t, inputs)

(***************************************************************************)
(* What the arguments and the core's answers are drawn from.  The          *)
(* sequential specification draws from everything; the concurrent one,     *)
(* which is about the order of core calls and not about their arguments,   *)
(* from one value of each kind that takes a different path.                *)
(***************************************************************************)
AllInputs ==
  [texts |-> UserJsonTexts, faults |-> Faults, apis |-> Apis, localModes |-> BOOLEAN,
   syncs |-> SyncIntervals, layers |-> Layers, configs |-> Configs, gates |-> BOOLEAN,
   missing |-> BOOLEAN]

ConcInputs ==
  [texts |-> {"", "42"}, faults |-> {NoFault, [kind |-> "std", what |-> "core failure"]},
   apis |-> {""}, localModes |-> {FALSE}, syncs |-> {10},
   layers |-> {l \in Layers : l.name = "my_layer"}, configs |-> {c \in Configs : c.ruleID = ""},
   gates |-> {TRUE}, missing |-> {FALSE}]

\* Sequential calls: one caller, each call runs to its end before the next.
Next == Step(MainThread, AllInputs)

Spec == Init /\ [][Next]_vars

\* Concurrent calls: the threads interleave at their core calls.
NextConc == \E t \in Threads : Step(t, ConcInputs)

SpecConc == Init /\ [][NextConc]_vars

(***************************************************************************)
(* Properties.                                                             *)
(***************************************************************************)
\* The call of thread t has ended (by a return or by an escaping fault).
Ended(t) == pc[t] = "done"

\* The call of thread t has returned an envelope.
ReturnedEnvelope(t) == Ended(t) /\ call[t].outcome = "returned" /\ call[t].op # "isInitialized"

ZeroPayload(c) == c.bvalue = FALSE /\ c.svalue = ""

\* Context building succeeded in the call c (the handler went on to the core).
ContextBuilt(c) == c.op \in EvalOps /\ c.parsed /\ c.invoked # "none"

\* C1: when the core reports not-initialized, every evaluation operation
\* returns ok=false with "Statsig not initialized" and a zero payload, for
\* every userJson, without context building and without a core evaluation call.
C1_NotInitialized ==
  \A t \in Threads :
    (call[t].op \in EvalOps /\ pc[t] # "idle" /\ call[t].outcome # "escaped" /\ ~call[t].initAtGuard)
      => /\ ReturnedEnvelope(t)
         /\ ~call[t].ok
         /\ call[t].error = "Statsig not initialized"
         /\ ZeroPayload(call[t])
         /\ ~call[t].parsed
         /\ call[t].invoked = "none"

\* An evaluation call on a core that is not initialized, with malformed userJson, has returned.
C1_Witness ==
  \E t \in Threads :
    /\ ReturnedEnvelope(t)
    /\ call[t].op = "getConfigJson"
    /\ call[t].userJson \in MalformedTexts
    /\ ~call[t].initAtGuard

\* C2: in a sequential run from an uninitialized core, as long as the core's
\* calls do not fault, initialize and initializeWithOptions return ok=true
\* exactly when the core is not initialized at the call and otherwise return
\* "already initialized" without calling the core's initialize; shutdown
\* returns ok=true exactly when the core is initialized at the call and
\* otherwise "not initialized" without calling the core's shutdown; an
\* initialize right after an initialize that returned ok returns ok=false,
\* and a shutdown before any initialize returns ok=false.
C2_Lifecycle ==
  \A t \in Threads :
    (Ended(t) /\ ~call[t].faulted) =>
      /\ call[t].op \in InitOps =>
           /\ call[t].outcome = "returned"
           /\ call[t].ok <=> ~call[t].initAtGuard
           /\ call[t].ok => call[t].invoked = "initialize" /\ call[t].error = "" /\ coreInit
           /\ ~call[t].ok => call[t].invoked = "none" /\ call[t].error = "Statsig already initialized"
           /\ call[t].afterInitOk => ~call[t].ok
      /\ call[t].op = "shutdown" =>
           /\ call[t].outcome = "returned"
           /\ call[t].ok <=> call[t].initAtGuard
           /\ call[t].ok => call[t].invoked = "shutdown" /\ call[t].error = "" /\ ~coreInit
           /\ ~call[t].ok => call[t].invoked = "none" /\ call[t].error = "Statsig not initialized"
           /\ call[t].beforeAnyInit => ~call[t].ok

\* The second of two initialize calls in succession has returned ok=false.
C2_Witness ==
  \E t \in Threads :
    /\ Ended(t)
    /\ call[t].op = "initialize"
    /\ call[t].afterInitOk
    /\ call[t].outcome = "returned"
    /\ ~call[t].ok

\* C3: no fault propagates past the adapter: a call during which a core call
\* faulted still returns, with an envelope having ok=false.
C3_NoFaultEscapes ==
  \A t \in Threads :
    (Ended(t) /\ call[t].faulted) => (call[t].outcome = "returned" /\ ~call[t].ok)

\* C4: every returned envelope has ok=false exactly when error is non-empty,
\* a zero payload when ok=false, and an empty error when ok=true.
C4_EnvelopeInvariant ==
  \A t \in Threads :
    ReturnedEnvelope(t) =>
      /\ ~call[t].ok <=> call[t].error # ""
      /\ ~call[t].ok => ZeroPayload(call[t])
      /\ call[t].ok => call[t].error = ""

\* C5: a call that returns ok=false leaves the core's flag as it was at the
\* call and has invoked neither the core's initialize nor its shutdown.
C5_FailedCallKeepsState ==
  \A t \in Threads :
    (ReturnedEnvelope(t) /\ ~call[t].ok) =>
      /\ coreInit = call[t].initAtGuard
      /\ call[t].invoked \notin {"initialize", "shutdown"}

\* An evaluation call has failed by a fault of the core's operation.
C5_Witness ==
  \E t \in Threads :
    /\ ReturnedEnvelope(t)
    /\ ~call[t].ok
    /\ call[t].invoked = "getConfig"
    /\ call[t].faulted
    /\ coreInit

\* The text getLayerJson is said to return for a layer: name, value, ruleID in that order.
LayerTextInsertionOrder(layer) ==
  "{\"name\":" \o Quote(layer.name) \o ",\"value\":" \o dump(JObj(layer.value))
    \o ",\"ruleID\":" \o Quote(layer.ruleID) \o "}"

\* The text with the members in the byte order of their keys: name, ruleID, value.
LayerTextKeyOrder(layer) ==
  "{\"name\":" \o Quote(layer.name) \o ",\"ruleID\":" \o Quote(layer.ruleID)
    \o ",\"value\":" \o dump(JObj(layer.value)) \o "}"

\* The call of thread t got a layer from the core's getLayer.
GotLayer(t) ==
  Ended(t) /\ call[t].op = "getLayerJson" /\ call[t].invoked = "getLayer" /\ ~call[t].faulted

\* C6 as stated: for every layer the core returns, getLayerJson returns
\* ok=true with exactly the members name, value, ruleID, in that order;
\* name="my_layer", value={"x":1}, ruleID="default" yields
\* {"name":"my_layer","value":{"x":1},"ruleID":"default"}.
C6_LayerInsertionOrder ==
  \A t \in Threads :
    GotLayer(t) =>
      /\ call[t].ok
      /\ call[t].svalue = LayerTextInsertionOrder(call[t].layer)
      /\ call[t].layer.name = "my_layer" =>
           call[t].svalue = "{\"name\":\"my_layer\",\"value\":{\"x\":1},\"ruleID\":\"default\"}"

\* C6 amended: for every layer the core returns, getLayerJson returns
\* ok=true with exactly the members name, value, ruleID and no other field
\* of the layer, written in the byte order of the keys: name, ruleID, value;
\* name="my_layer", value={"x":1}, ruleID="default" yields
\* {"name":"my_layer","ruleID":"default","value":{"x":1}}.
C6_LayerKeyOrder ==
  \A t \in Threads :
    GotLayer(t) =>
      /\ call[t].ok
      /\ call[t].error = ""
      /\ call[t].svalue = LayerTextKeyOrder(call[t].layer)
      /\ call[t].layer.name = "my_layer" =>
           call[t].svalue = "{\"name\":\"my_layer\",\"ruleID\":\"default\",\"value\":{\"x\":1}}"
      /\ call[t].layer.name = "l2" =>
           call[t].svalue = "{\"name\":\"l2\",\"ruleID\":\"rule_7\",\"value\":{\"x\":1,\"y\":\"b\"}}"
      /\ call[t].layer.name = "empty_layer" =>
           call[t].svalue = "{\"name\":\"empty_layer\",\"ruleID\":\"\",\"value\":{}}"

\* getLayerJson has returned the text of the layer my_layer, which has a groupName.
C6_Witness ==
  \E t \in Threads :
    /\ GotLayer(t)
    /\ call[t].outcome = "returned"
    /\ call[t].layer.name = "my_layer"
    /\ call[t].layer.groupName = "g1"
    /\ call[t].userJson = "{}"

\* The object a userJson text denotes (for the texts that denote one).
InputObject(c) == json_parse(c.userJson).value.v

\* C7 as stated: for every valid non-empty JSON object j, the context has,
\* for every key present in j, exactly the value j supplies (a wholesale
\* overwrite, null members and null values included), and the default for
\* every absent field.
C7_WholesaleOverwrite ==
  \A t \in Threads :
    (ContextBuilt(call[t]) /\ call[t].userJson \in ObjectTexts) =>
      \A k \in UserKeys :
        call[t].user[k] = IF k \in DOMAIN InputObject(call[t])
                          THEN InputObject(call[t])[k]
                          ELSE DefaultUser[k]

\* A JSON value with the null-valued members of its objects removed, at every depth.
RECURSIVE StripNulls(_)
StripNulls(j) ==
  IF j.t # "object" THEN j
  ELSE JObj([k \in {m \in DOMAIN j.v : j.v[m].t # "null"} |-> StripNulls(j.v[k])])

\* C7 amended: for every valid non-empty JSON object j on which context
\* building succeeds, a field whose key is present in j with a non-null value
\* holds that value with the null-valued members of its objects removed at
\* every depth (the RFC 7386 merge patch onto the default), and a field whose
\* key is absent from j or null in j holds its default.
C7_MergePatch ==
  \A t \in Threads :
    (ContextBuilt(call[t]) /\ call[t].userJson \in ObjectTexts) =>
      \A k \in UserKeys :
        call[t].user[k] = IF k \in DOMAIN InputObject(call[t]) /\ InputObject(call[t])[k].t # "null"
                          THEN StripNulls(InputObject(call[t])[k])
                          ELSE DefaultUser[k]

\* A context was built from an object whose custom member has a null-valued member.
C7_Witness ==
  \E t \in Threads :
    /\ ContextBuilt(call[t])
    /\ call[t].userJson = "{\"custom\":{\"plan\":\"pro\",\"tmp\":null}}"
    /\ DOMAIN call[t].user["custom"].v = {"plan"}

\* C8: on an initialized core, an evaluation operation whose userJson is a
\* JSON value that is not an object returns ok=false with "userJson must be
\* a JSON object" and a zero payload, and the core's operation is not called.
C8_NotAnObject ==
  \A t \in Threads :
    (call[t].op \in EvalOps /\ pc[t] # "idle" /\ call[t].outcome # "escaped"
       /\ call[t].initAtGuard /\ call[t].userJson \in NonObjectTexts)
      => /\ ReturnedEnvelope(t)
         /\ call[t].parsed
         /\ ~call[t].ok
         /\ call[t].error = "userJson must be a JSON object"
         /\ ZeroPayload(call[t])
         /\ call[t].invoked = "none"

\* getLayerJson has returned for an array userJson on an initialized core.
C8_Witness ==
  \E t \in Threads :
    /\ ReturnedEnvelope(t)
    /\ call[t].op = "getLayerJson"
    /\ call[t].initAtGuard
    /\ call[t].userJson = "[1]"

\* The fixed fallback text of each evaluation operation.
FallbackText(op) ==
  CASE op = "checkGateJson" -> "Failed to check gate"
    [] op = "getConfigJson" -> "Failed to get config"
    [] op = "getExperimentJson" -> "Failed to get experiment"
    [] op = "getLayerJson" -> "Failed to get layer"
    [] op = "logEventJson" -> "Failed to log event"
    [] OTHER -> ""

\* C9: when the core's operation faults in an evaluation call, the result is
\* ok=false with the fault's message when that is non-empty and with the
\* operation's fallback text when the fault carries no message, whatever the
\* kind of fault.
C9_FaultMessage ==
  \A t \in Threads :
    (Ended(t) /\ call[t].op \in EvalOps /\ call[t].invoked \in CoreEvalFns /\ call[t].faulted) =>
      /\ call[t].outcome = "returned"
      /\ ~call[t].ok
      /\ call[t].error = IF call[t].fault.what # "" THEN call[t].fault.what
                         ELSE FallbackText(call[t].op)

\* C10: in every interleaving, the core's initialize is never called while
\* the core is initialized, its shutdown never while it is not initialized,
\* and no evaluation operation of the core after it was shut down.
C10_NoCheckUseRace ==
  \A t \in Threads :
    /\ call[t].invoked = "initialize" => ~call[t].initAtInvoke
    /\ call[t].invoked = "shutdown" => call[t].initAtInvoke
    /\ call[t].invoked \in CoreEvalFns => call[t].initAtInvoke

====
